---------------------------- MODULE Spec2Model ----------------------------
(***************************************************************************)
(* CoinbaseRelay (src/ws-socket.ts): one upstream WebSocket to the         *)
(* exchange feed, many downstream socket.io clients, a two-way             *)
(* subscription registry, and a reconnect loop with exponential backoff.   *)
(*                                                                         *)
(* Every action is one run of one event handler of the Node.js event loop: *)
(* handlers run to completion, one at a time.  The variables sent and      *)
(* emitted hold what the handler that ran last wrote to the upstream       *)
(* socket and to the clients; lastEvent names that handler and what it     *)
(* was given.  A JavaScript Set is modelled as a set and what a forEach    *)
(* over it writes as a bag: the iteration order is not kept.               *)
(***************************************************************************)
EXTENDS Bags, FiniteSets, Integers, Sequences, TLC

(* ------------------------------ bounds -------------------------------- *)

\* number of downstream socket ids
NumClients == 2
\* longest channels array of an upstream acknowledgement
MaxChannels == 2
\* calls of initializeCoinbaseWebSocket() from outside the reconnect loop
MaxConnectCalls == 1

Clients == 1..NumClients
Products == {"BTC-USD", "ETH-USD"}

(* ------------------------- program constants -------------------------- *)

maxReconnectAttempts == 5
reconnectDelay == 5000

\* WebSocket.readyState
CONNECTING == "CONNECTING"
OPEN == "OPEN"
CLOSING == "CLOSING"
CLOSED == "CLOSED"

\* a property an object does not have
Undefined == "undefined"

(* ------------------------------- state -------------------------------- *)

VARIABLES
  sockets,              \* io.sockets.sockets: the ids of the connected clients
  subscriptions,        \* Map<productId, Set<socketId>>
  socketSubscriptions,  \* Map<socketId, Set<productId>>
  coinbaseWs,           \* the WebSocket object this.coinbaseWs refers to
  readyState,           \* readyState of every WebSocket object still in use
  reconnectAttempts,
  timers,               \* delays of the pending setTimeout callbacks
  upstreamSubs,         \* products subscribed on the connection of coinbaseWs
  wasOpened,            \* the WebSocket objects in use that had their open event
  closeLog,             \* what each close handler scheduled since the last open
  connectCalls,         \* calls of initializeCoinbaseWebSocket() by Connect so far
  sent,                 \* bag of the messages the last handler sent upstream
  emitted,              \* bag of the events the last handler sent to clients
  lastEvent             \* the handler that ran last, and its arguments

vars == <<sockets, subscriptions, socketSubscriptions, coinbaseWs, readyState,
          reconnectAttempts, timers, upstreamSubs, wasOpened, closeLog,
          connectCalls, sent, emitted, lastEvent>>

registryVars == <<subscriptions, socketSubscriptions>>
upstreamVars == <<coinbaseWs, readyState, reconnectAttempts, timers, wasOpened,
                  closeLog, connectCalls>>

(* ------------------------- Map and Set helpers ------------------------ *)

EmptyMap == [k \in {} |-> {}]
Has(m, k) == k \in DOMAIN m
\* Map.get(k) || [] : the value, or nothing for a missing key
GetOrEmpty(m, k) == IF Has(m, k) THEN m[k] ELSE {}
MapSet(m, k, v) == [x \in (DOMAIN m) \cup {k} |-> IF x = k THEN v ELSE m[x]]
MapDelete(m, k) == [x \in (DOMAIN m) \ {k} |-> m[x]]

\* obj.field of a parsed JSON object: undefined when the field is missing
Field(obj, name) == IF name \in DOMAIN obj THEN obj[name] ELSE Undefined

SeqUpTo(S, n) == UNION {[1..k -> S] : k \in 0..n}

(* ------------------------------ registry ------------------------------ *)

\* The pair of maps, threaded through the registry helpers.
Registry(subs, sockSubs) == [subscriptions |-> subs, socketSubscriptions |-> sockSubs]

\* Mutant: the socketSubscriptions map is not updated.
addSubscriptionOneMap(reg, socketId, productId) ==
  LET s0 == reg.subscriptions
      s1 == IF ~Has(s0, productId) THEN MapSet(s0, productId, {}) ELSE s0
      s2 == MapSet(s1, productId, s1[productId] \cup {socketId})
  IN  Registry(s2, reg.socketSubscriptions)

addSubscription(reg, socketId, productId) ==
  LET s0 == reg.subscriptions
      s1 == IF ~Has(s0, productId) THEN MapSet(s0, productId, {}) ELSE s0
      s2 == MapSet(s1, productId, s1[productId] \cup {socketId})
      c0 == reg.socketSubscriptions
      c1 == IF ~Has(c0, socketId) THEN MapSet(c0, socketId, {}) ELSE c0
      c2 == MapSet(c1, socketId, c1[socketId] \cup {productId})
  IN  Registry(s2, c2)

\* Mutant: an emptied subscriber set keeps its key in the subscriptions map.
removeSubscriptionKeepKey(reg, socketId, productId) ==
  LET s0 == reg.subscriptions
      s1 == IF Has(s0, productId)
              THEN MapSet(s0, productId, s0[productId] \ {socketId})
              ELSE s0
      c0 == reg.socketSubscriptions
      c1 == IF Has(c0, socketId)
              THEN LET products == c0[socketId] \ {productId}
                   IN  IF products = {}
                         THEN MapDelete(c0, socketId)
                         ELSE MapSet(c0, socketId, products)
              ELSE c0
  IN  Registry(s1, c1)

removeSubscription(reg, socketId, productId) ==
  LET s0 == reg.subscriptions
      s1 == IF Has(s0, productId)
              THEN LET subscribers == s0[productId] \ {socketId}
                   IN  IF subscribers = {}
                         THEN MapDelete(s0, productId)
                         ELSE MapSet(s0, productId, subscribers)
              ELSE s0
      c0 == reg.socketSubscriptions
      c1 == IF Has(c0, socketId)
              THEN LET products == c0[socketId] \ {productId}
                   IN  IF products = {}
                         THEN MapDelete(c0, socketId)
                         ELSE MapSet(c0, socketId, products)
              ELSE c0
  IN  Registry(s1, c1)

(* --------------------------- upstream sends --------------------------- *)

SubscribeMsg(productId) == [type |-> "subscribe", product_ids |-> <<productId>>,
                            channels |-> <<"ticker">>]
UnsubscribeMsg(productId) == [type |-> "unsubscribe", product_ids |-> <<productId>>,
                              channels |-> <<"ticker">>]

\* Mutant: the readyState test is left out.
subscribeToCoinbaseUngated(rs, productId) == SetToBag({SubscribeMsg(productId)})

\* The bag of messages subscribeToCoinbase writes to a socket in state rs.
subscribeToCoinbase(rs, productId) ==
  IF rs # OPEN THEN EmptyBag ELSE SetToBag({SubscribeMsg(productId)})

\* Mutant: the hasNoSubscribers test is left out.
unsubscribeFromCoinbaseUnchecked(reg, rs, productId) ==
  IF rs = OPEN THEN SetToBag({UnsubscribeMsg(productId)}) ELSE EmptyBag

\* Mutant: the unsubscribe message is never written.
unsubscribeFromCoinbaseDropped(reg, rs, productId) == EmptyBag

\* The bag of messages unsubscribeFromCoinbase writes, given the registry
\* as removeSubscription left it.
unsubscribeFromCoinbase(reg, rs, productId) ==
  LET hasNoSubscribers == \/ ~Has(reg.subscriptions, productId)
                          \/ Cardinality(reg.subscriptions[productId]) = 0
  IN  IF hasNoSubscribers /\ rs = OPEN
        THEN SetToBag({UnsubscribeMsg(productId)})
        ELSE EmptyBag

\* The forEach of cleanupClient over the products in todo: the registry and
\* the bag of upstream messages after it.
RECURSIVE cleanupLoop(_, _, _, _, _)
cleanupLoop(reg, out, rs, socketId, todo) ==
  IF todo = {} THEN [reg |-> reg, out |-> out]
  ELSE LET productId == CHOOSE p \in todo : TRUE
           r1 == removeSubscription(reg, socketId, productId)
           subscribers == GetOrEmpty(r1.subscriptions, productId)
           o1 == IF ~Has(r1.subscriptions, productId) \/ Cardinality(subscribers) = 0
                   THEN out (+) unsubscribeFromCoinbase(r1, rs, productId)
                   ELSE out
       IN  cleanupLoop(r1, o1, rs, socketId, todo \ {productId})

\* Mutant: the client is removed everywhere but no product is unsubscribed.
cleanupClientSilent(reg, rs, socketId) ==
  LET productIds == GetOrEmpty(reg.socketSubscriptions, socketId)
      done == cleanupLoop(reg, EmptyBag, rs, socketId, productIds)
  IN  [reg |-> Registry(done.reg.subscriptions,
                        MapDelete(done.reg.socketSubscriptions, socketId)),
       out |-> EmptyBag]

\* Mutant: every product left without subscribers is unsubscribed, whether
\* the client held it or not.
cleanupClientSweep(reg, rs, socketId) ==
  LET productIds == GetOrEmpty(reg.socketSubscriptions, socketId)
      done == cleanupLoop(reg, EmptyBag, rs, socketId, productIds)
  IN  [reg |-> Registry(done.reg.subscriptions,
                        MapDelete(done.reg.socketSubscriptions, socketId)),
       out |-> IF rs = OPEN
                 THEN SetToBag({UnsubscribeMsg(q) :
                        q \in {x \in Products : ~Has(done.reg.subscriptions, x)}})
                 ELSE EmptyBag]

cleanupClient(reg, rs, socketId) ==
  LET productIds == GetOrEmpty(reg.socketSubscriptions, socketId)
      done == cleanupLoop(reg, EmptyBag, rs, socketId, productIds)
  IN  [reg |-> Registry(done.reg.subscriptions,
                        MapDelete(done.reg.socketSubscriptions, socketId)),
       out |-> done.out]

\* What the upstream server holds for the connection after the messages in out.
ApplySends(subs, out) ==
  (subs \cup {p \in Products : BagIn(SubscribeMsg(p), out)})
     \ {p \in Products : BagIn(UnsubscribeMsg(p), out)}

(* ------------------------- events to clients -------------------------- *)

Emit(socketId, ev, arg) == [to |-> socketId, ev |-> ev, arg |-> arg]

\* Mutant: the event goes to one connected client only.
BroadcastToOne(conn, ev, arg) ==
  IF conn = {} THEN EmptyBag
  ELSE SetToBag({Emit(CHOOSE c \in conn : TRUE, ev, arg)})

\* io.emit(ev, arg)
Broadcast(conn, ev, arg) == SetToBag({Emit(c, ev, arg) : c \in conn})

(* --------------------------- initial state ---------------------------- *)

\* After new CoinbaseRelay(server): no client, empty maps, and the first
\* upstream WebSocket created by initializeCoinbaseWebSocket().
Init ==
  /\ sockets = {}
  /\ subscriptions = EmptyMap
  /\ socketSubscriptions = EmptyMap
  /\ coinbaseWs = 1
  /\ readyState = [w \in {1} |-> CONNECTING]
  /\ reconnectAttempts = 0
  /\ timers = <<>>
  /\ upstreamSubs = {}
  /\ wasOpened = {}
  /\ closeLog = <<>>
  /\ connectCalls = 0
  /\ sent = EmptyBag
  /\ emitted = EmptyBag
  /\ lastEvent = [kind |-> "constructor"]

(* -------------------------- client handlers --------------------------- *)

\* Mutant: coinbaseConnected is true for any socket that is not CLOSED.
OnConnectionNotClosed(socketId) ==
  /\ socketId \notin sockets
  /\ sockets' = sockets \cup {socketId}
  /\ emitted' = SetToBag({Emit(socketId, "connection-status",
                   [connected |-> TRUE,
                    coinbaseConnected |-> (readyState[coinbaseWs] # CLOSED)])})
  /\ sent' = EmptyBag
  /\ lastEvent' = [kind |-> "connection", socket |-> socketId]
  /\ UNCHANGED <<registryVars, upstreamVars, upstreamSubs>>

\* io.on("connection"): a new client gets its connection-status snapshot.
OnConnection(socketId) ==
  /\ socketId \notin sockets
  /\ sockets' = sockets \cup {socketId}
  /\ emitted' = SetToBag({Emit(socketId, "connection-status",
                   [connected |-> TRUE,
                    coinbaseConnected |-> (readyState[coinbaseWs] = OPEN)])})
  /\ sent' = EmptyBag
  /\ lastEvent' = [kind |-> "connection", socket |-> socketId]
  /\ UNCHANGED <<registryVars, upstreamVars, upstreamSubs>>

\* Mutant: a subscribe request that finds the upstream socket CLOSED puts a
\* new CONNECTING socket in its place.
OnSubscribeConnects(socketId, productId) ==
  /\ socketId \in sockets
  /\ LET reg == addSubscription(Registry(subscriptions, socketSubscriptions),
                                socketId, productId)
         out == subscribeToCoinbase(readyState[coinbaseWs], productId)
     IN  /\ subscriptions' = reg.subscriptions
         /\ socketSubscriptions' = reg.socketSubscriptions
         /\ sent' = out
         /\ upstreamSubs' = ApplySends(upstreamSubs, out)
  /\ readyState' = IF readyState[coinbaseWs] = CLOSED
                     THEN [readyState EXCEPT ![coinbaseWs] = CONNECTING]
                     ELSE readyState
  /\ emitted' = EmptyBag
  /\ lastEvent' = [kind |-> "subscribe", socket |-> socketId, productId |-> productId,
                   before |-> GetOrEmpty(subscriptions, productId)]
  /\ UNCHANGED <<sockets, coinbaseWs, reconnectAttempts, timers, wasOpened,
                 closeLog, connectCalls>>

\* socket.on("subscribe")
OnSubscribe(socketId, productId) ==
  /\ socketId \in sockets
  /\ LET reg == addSubscription(Registry(subscriptions, socketSubscriptions),
                                socketId, productId)
         out == subscribeToCoinbase(readyState[coinbaseWs], productId)
     IN  /\ subscriptions' = reg.subscriptions
         /\ socketSubscriptions' = reg.socketSubscriptions
         /\ sent' = out
         /\ upstreamSubs' = ApplySends(upstreamSubs, out)
  /\ emitted' = EmptyBag
  /\ lastEvent' = [kind |-> "subscribe", socket |-> socketId, productId |-> productId,
                   before |-> GetOrEmpty(subscriptions, productId)]
  /\ UNCHANGED <<sockets, upstreamVars>>

\* socket.on("unsubscribe")
OnUnsubscribe(socketId, productId) ==
  /\ socketId \in sockets
  /\ LET reg == removeSubscription(Registry(subscriptions, socketSubscriptions),
                                   socketId, productId)
         out == unsubscribeFromCoinbase(reg, readyState[coinbaseWs], productId)
     IN  /\ subscriptions' = reg.subscriptions
         /\ socketSubscriptions' = reg.socketSubscriptions
         /\ sent' = out
         /\ upstreamSubs' = ApplySends(upstreamSubs, out)
  /\ emitted' = EmptyBag
  /\ lastEvent' = [kind |-> "unsubscribe", socket |-> socketId, productId |-> productId,
                   before |-> GetOrEmpty(subscriptions, productId)]
  /\ UNCHANGED <<sockets, upstreamVars>>

\* Mutant: the disconnect handler does not call cleanupClient.
OnDisconnectNoCleanup(socketId) ==
  /\ socketId \in sockets
  /\ sockets' = sockets \ {socketId}
  /\ sent' = EmptyBag
  /\ emitted' = EmptyBag
  /\ lastEvent' = [kind |-> "disconnect", socket |-> socketId,
                   products |-> GetOrEmpty(socketSubscriptions, socketId)]
  /\ UNCHANGED <<registryVars, upstreamVars, upstreamSubs>>

\* socket.on("disconnect"): socket.io has dropped the socket from
\* io.sockets.sockets before the handler runs.
OnDisconnect(socketId) ==
  /\ socketId \in sockets
  /\ sockets' = sockets \ {socketId}
  /\ LET res == cleanupClient(Registry(subscriptions, socketSubscriptions),
                              readyState[coinbaseWs], socketId)
     IN  /\ subscriptions' = res.reg.subscriptions
         /\ socketSubscriptions' = res.reg.socketSubscriptions
         /\ sent' = res.out
         /\ upstreamSubs' = ApplySends(upstreamSubs, res.out)
  /\ emitted' = EmptyBag
  /\ lastEvent' = [kind |-> "disconnect", socket |-> socketId,
                   products |-> GetOrEmpty(socketSubscriptions, socketId)]
  /\ UNCHANGED upstreamVars

(* -------------------------- upstream messages ------------------------- *)

\* One entry of the channels array of an acknowledgement: product_ids is
\* missing or names one product.  A channel naming several products is
\* flattened by flatMap to what several channels naming one each give.
Channels ==
  {[name |-> "ticker"]} \cup
  {[name |-> "ticker", product_ids |-> <<p>>] : p \in Products}

\* The parsed upstream messages (CoinbaseMessage): tickers with and without
\* a product_id, acknowledgements with and without channels, another type.
CoinbaseMessages ==
  {[type |-> "ticker", product_id |-> p] : p \in Products} \cup
  {[type |-> "ticker"], [type |-> "ticker", product_id |-> ""]} \cup
  {[type |-> "subscriptions", channels |-> chs] : chs \in SeqUpTo(Channels, MaxChannels)} \cup
  {[type |-> "subscriptions"], [type |-> "heartbeat"]}

\* What arrives on the socket: text that is JSON for a message, or is not JSON.
RawData == {[json |-> FALSE]} \cup {[json |-> TRUE, value |-> m] : m \in CoinbaseMessages}

\* JSON.parse(data.toString()): the message, or a SyntaxError.
JSONparse(data) ==
  IF data.json THEN [threw |-> FALSE, value |-> data.value] ELSE [threw |-> TRUE]

\* a string in a condition: undefined and "" are falsy
Truthy(str) == str # Undefined /\ str # ""

\* subscribers.forEach: io.sockets.sockets.get(socketId)?.emit(ev, arg), which
\* skips an id that is not a connected socket
EmitToEach(conn, subscribers, ev, arg) ==
  SetToBag({Emit(c, ev, arg) : c \in subscribers \cap conn})

\* Mutant: a ticker goes to every connected client (io.emit).
handleTickerMessageToAll(subs, conn, message) ==
  IF ~Truthy(Field(message, "product_id")) THEN EmptyBag
  ELSE SetToBag({Emit(c, "ticker", message) : c \in conn})

handleTickerMessage(subs, conn, message) ==
  IF ~Truthy(Field(message, "product_id")) THEN EmptyBag
  ELSE LET subscribers == GetOrEmpty(subs, message.product_id)
       IN  IF Has(subs, message.product_id) /\ Cardinality(subscribers) > 0
             THEN EmitToEach(conn, subscribers, "ticker", message)
             ELSE EmptyBag

\* Mutant: only the first channel of the acknowledgement is read.
flatMapProductIdsFirstChannel(channels) ==
  IF channels = <<>> THEN <<>>
  ELSE IF "product_ids" \in DOMAIN Head(channels)
         THEN Head(channels).product_ids ELSE <<>>

\* channels.flatMap((channel) => channel.product_ids || [])
RECURSIVE flatMapProductIds(_)
flatMapProductIds(channels) ==
  IF channels = <<>> THEN <<>>
  ELSE (IF "product_ids" \in DOMAIN Head(channels)
          THEN Head(channels).product_ids ELSE <<>>)
       \o flatMapProductIds(Tail(channels))

\* productIds.forEach(...) of handleSubscriptionMessage
RECURSIVE confirmEach(_, _, _, _)
confirmEach(subs, conn, productIds, message) ==
  IF productIds = <<>> THEN EmptyBag
  ELSE LET productId == Head(productIds)
           subscribers == GetOrEmpty(subs, productId)
           here == IF Has(subs, productId) /\ Cardinality(subscribers) > 0
                     THEN EmitToEach(conn, subscribers, "subscription-confirmed", message)
                     ELSE EmptyBag
       IN  here (+) confirmEach(subs, conn, Tail(productIds), message)

handleSubscriptionMessage(subs, conn, message) ==
  IF "channels" \notin DOMAIN message THEN EmptyBag
  ELSE confirmEach(subs, conn, flatMapProductIds(message.channels), message)

\* The body of the "message" handler: the events it sends to clients.
onMessage(subs, conn, data) ==
  LET res == JSONparse(data)
  IN  IF res.threw THEN EmptyBag
      ELSE LET parsed == res.value
           IN  IF parsed.type = "ticker" /\ Truthy(Field(parsed, "product_id"))
                 THEN handleTickerMessage(subs, conn, parsed)
               ELSE IF parsed.type = "subscriptions"
                 THEN handleSubscriptionMessage(subs, conn, parsed)
               ELSE EmptyBag

(* ------------------------- upstream connection ------------------------ *)

RECURSIVE Pow2(_)
Pow2(n) == IF n = 0 THEN 1 ELSE 2 * Pow2(n - 1)

\* Mutant: the delay grows linearly.
backoffDelayLinear(attempts) == reconnectDelay * (attempts + 1)

\* const delay = this.reconnectDelay * 2 ** this.reconnectAttempts
backoffDelay(attempts) == reconnectDelay * Pow2(attempts)

\* Mutant: one reconnect too many.
shouldReconnectOffByOne(attempts) == attempts <= maxReconnectAttempts

\* if (this.reconnectAttempts < this.maxReconnectAttempts)
shouldReconnect(attempts) == attempts < maxReconnectAttempts

\* An id for a new WebSocket object, different from every object in use.
FreshWs(inUse) == CHOOSE n \in 1..(Cardinality(inUse) + 1) : n \notin inUse

\* initializeCoinbaseWebSocket(): returns at once when the current socket is
\* OPEN; otherwise this.coinbaseWs becomes a new CONNECTING socket.  The old
\* object stays in use (its handlers can still run) unless it is CLOSED.
initializeCoinbaseWebSocket(ws, rs) ==
  IF rs[ws] = OPEN THEN [coinbaseWs |-> ws, readyState |-> rs]
  ELSE LET kept == IF rs[ws] = CLOSED THEN (DOMAIN rs) \ {ws} ELSE DOMAIN rs
           new == FreshWs(kept)
       IN  [coinbaseWs |-> new,
            readyState |-> [w \in kept \cup {new} |->
                              IF w = new THEN CONNECTING ELSE rs[w]]]

\* Mutant: the open handler subscribes every product of the registry again.
WsOpenResubscribes(w) ==
  /\ w \in DOMAIN readyState /\ readyState[w] = CONNECTING
  /\ readyState' = [readyState EXCEPT ![w] = OPEN]
  /\ reconnectAttempts' = 0
  /\ emitted' = Broadcast(sockets, "coinbase-status", [connected |-> TRUE])
  /\ wasOpened' = wasOpened \cup {w}
  /\ closeLog' = <<>>
  /\ sent' = SetToBag({SubscribeMsg(p) : p \in DOMAIN subscriptions})
  /\ upstreamSubs' = IF w = coinbaseWs THEN DOMAIN subscriptions ELSE upstreamSubs
  /\ lastEvent' = [kind |-> "open", ws |-> w, attemptsBefore |-> reconnectAttempts]
  /\ UNCHANGED <<sockets, registryVars, coinbaseWs, timers, connectCalls>>

\* Mutant: the open handler does not reset reconnectAttempts.
WsOpenNoReset(w) ==
  /\ w \in DOMAIN readyState /\ readyState[w] = CONNECTING
  /\ readyState' = [readyState EXCEPT ![w] = OPEN]
  /\ emitted' = Broadcast(sockets, "coinbase-status", [connected |-> TRUE])
  /\ wasOpened' = wasOpened \cup {w}
  /\ closeLog' = <<>>
  /\ sent' = EmptyBag
  /\ lastEvent' = [kind |-> "open", ws |-> w, attemptsBefore |-> reconnectAttempts]
  /\ UNCHANGED <<sockets, registryVars, coinbaseWs, reconnectAttempts, timers,
                 upstreamSubs, connectCalls>>

\* coinbaseWs.on("open")
WsOpen(w) ==
  /\ w \in DOMAIN readyState /\ readyState[w] = CONNECTING
  /\ readyState' = [readyState EXCEPT ![w] = OPEN]
  /\ reconnectAttempts' = 0
  /\ emitted' = Broadcast(sockets, "coinbase-status", [connected |-> TRUE])
  /\ wasOpened' = wasOpened \cup {w}
  /\ closeLog' = <<>>
  /\ sent' = EmptyBag
  /\ lastEvent' = [kind |-> "open", ws |-> w, attemptsBefore |-> reconnectAttempts]
  /\ UNCHANGED <<sockets, registryVars, coinbaseWs, timers, upstreamSubs,
                 connectCalls>>

\* Mutant: no try/catch: data that is not JSON ends the connection.
WsMessageNoCatch(w, data) ==
  /\ w \in DOMAIN readyState /\ readyState[w] = OPEN
  /\ emitted' = onMessage(subscriptions, sockets, data)
  /\ readyState' = IF JSONparse(data).threw
                     THEN [readyState EXCEPT ![w] = CLOSING]
                     ELSE readyState
  /\ sent' = EmptyBag
  /\ lastEvent' = [kind |-> "message", ws |-> w, data |-> data]
  /\ UNCHANGED <<sockets, registryVars, coinbaseWs, reconnectAttempts, timers,
                 wasOpened, closeLog, connectCalls, upstreamSubs>>

\* Mutant: the events of a message are written one message late, when the
\* next message arrives.
WsMessageOneLate(w, data) ==
  /\ w \in DOMAIN readyState /\ readyState[w] = OPEN
  /\ emitted' = IF lastEvent.kind = "message"
                  THEN onMessage(subscriptions, sockets, lastEvent.data)
                  ELSE EmptyBag
  /\ sent' = EmptyBag
  /\ lastEvent' = [kind |-> "message", ws |-> w, data |-> data]
  /\ UNCHANGED <<sockets, registryVars, upstreamVars, upstreamSubs>>

\* coinbaseWs.on("message")
WsMessage(w, data) ==
  /\ w \in DOMAIN readyState /\ readyState[w] = OPEN
  /\ emitted' = onMessage(subscriptions, sockets, data)
  /\ sent' = EmptyBag
  /\ lastEvent' = [kind |-> "message", ws |-> w, data |-> data]
  /\ UNCHANGED <<sockets, registryVars, upstreamVars, upstreamSubs>>

\* Mutant: the error handler closes the socket.
WsErrorCloses(w) ==
  /\ w \in DOMAIN readyState /\ readyState[w] # CLOSED
  /\ readyState' = [readyState EXCEPT ![w] = CLOSING]
  /\ emitted' = Broadcast(sockets, "coinbase-status",
                          [connected |-> FALSE, error |-> "message"])
  /\ sent' = EmptyBag
  /\ lastEvent' = [kind |-> "error", ws |-> w]
  /\ UNCHANGED <<sockets, registryVars, coinbaseWs, reconnectAttempts, timers,
                 wasOpened, closeLog, connectCalls, upstreamSubs>>

\* Mutant: the error handler schedules a reconnect as the close handler does.
WsErrorReconnects(w) ==
  /\ w \in DOMAIN readyState /\ readyState[w] # CLOSED
  /\ emitted' = Broadcast(sockets, "coinbase-status",
                          [connected |-> FALSE, error |-> "message"])
  /\ timers' = Append(timers, backoffDelay(reconnectAttempts))
  /\ sent' = EmptyBag
  /\ lastEvent' = [kind |-> "error", ws |-> w]
  /\ UNCHANGED <<sockets, registryVars, coinbaseWs, readyState, reconnectAttempts,
                 wasOpened, closeLog, connectCalls, upstreamSubs>>

\* coinbaseWs.on("error")
WsError(w) ==
  /\ w \in DOMAIN readyState /\ readyState[w] # CLOSED
  /\ emitted' = Broadcast(sockets, "coinbase-status",
                          [connected |-> FALSE, error |-> "message"])
  /\ sent' = EmptyBag
  /\ lastEvent' = [kind |-> "error", ws |-> w]
  /\ UNCHANGED <<sockets, registryVars, upstreamVars, upstreamSubs>>

\* The ws library starts closing the socket (a close frame, a failed
\* handshake, a dropped TCP connection): readyState is CLOSING until the
\* close event.  No handler of the relay runs.
WsClosing(w) ==
  /\ w \in DOMAIN readyState /\ readyState[w] \in {CONNECTING, OPEN}
  /\ readyState' = [readyState EXCEPT ![w] = CLOSING]
  /\ sent' = EmptyBag
  /\ emitted' = EmptyBag
  /\ lastEvent' = [kind |-> "closing", ws |-> w]
  /\ UNCHANGED <<sockets, registryVars, coinbaseWs, reconnectAttempts, timers,
                 wasOpened, closeLog, upstreamSubs, connectCalls>>

\* Mutant: the attempt is counted when the timer is set, and again when it
\* fires.
WsCloseCounts(w) ==
  /\ w \in DOMAIN readyState /\ readyState[w] # CLOSED
  /\ readyState' = IF w = coinbaseWs
                     THEN [readyState EXCEPT ![w] = CLOSED]
                     ELSE [x \in (DOMAIN readyState) \ {w} |-> readyState[x]]
  /\ upstreamSubs' = IF w = coinbaseWs THEN {} ELSE upstreamSubs
  /\ emitted' = Broadcast(sockets, "coinbase-status", [connected |-> FALSE])
  /\ IF shouldReconnect(reconnectAttempts)
       THEN /\ timers' = Append(timers, backoffDelay(reconnectAttempts))
            /\ reconnectAttempts' = reconnectAttempts + 1
            /\ closeLog' = Append(closeLog, [attempts |-> reconnectAttempts,
                                             scheduled |-> TRUE,
                                             delay |-> backoffDelay(reconnectAttempts)])
       ELSE /\ timers' = timers
            /\ reconnectAttempts' = reconnectAttempts
            /\ closeLog' = Append(closeLog, [attempts |-> reconnectAttempts,
                                             scheduled |-> FALSE])
  /\ wasOpened' = wasOpened \ {w}
  /\ sent' = EmptyBag
  /\ lastEvent' = [kind |-> "close", ws |-> w, attemptsBefore |-> reconnectAttempts,
                   opened |-> (w \in wasOpened)]
  /\ UNCHANGED <<sockets, registryVars, coinbaseWs, connectCalls>>

\* coinbaseWs.on("close")
WsClose(w) ==
  /\ w \in DOMAIN readyState /\ readyState[w] # CLOSED
  /\ readyState' = IF w = coinbaseWs
                     THEN [readyState EXCEPT ![w] = CLOSED]
                     ELSE [x \in (DOMAIN readyState) \ {w} |-> readyState[x]]
  /\ upstreamSubs' = IF w = coinbaseWs THEN {} ELSE upstreamSubs
  /\ emitted' = Broadcast(sockets, "coinbase-status", [connected |-> FALSE])
  /\ IF shouldReconnect(reconnectAttempts)
       THEN /\ timers' = Append(timers, backoffDelay(reconnectAttempts))
            /\ closeLog' = Append(closeLog, [attempts |-> reconnectAttempts,
                                             scheduled |-> TRUE,
                                             delay |-> backoffDelay(reconnectAttempts)])
       ELSE /\ timers' = timers
            /\ closeLog' = Append(closeLog, [attempts |-> reconnectAttempts,
                                             scheduled |-> FALSE])
  /\ wasOpened' = wasOpened \ {w}
  /\ sent' = EmptyBag
  /\ lastEvent' = [kind |-> "close", ws |-> w, attemptsBefore |-> reconnectAttempts,
                   opened |-> (w \in wasOpened)]
  /\ UNCHANGED <<sockets, registryVars, coinbaseWs, reconnectAttempts,
                 connectCalls>>

\* Mutant: the callback counts the attempt and creates no socket.
TimerFiredNoConnect(i) ==
  /\ i \in 1..Len(timers)
  /\ timers' = [j \in 1..(Len(timers) - 1) |-> IF j < i THEN timers[j] ELSE timers[j + 1]]
  /\ reconnectAttempts' = reconnectAttempts + 1
  /\ sent' = EmptyBag
  /\ emitted' = EmptyBag
  /\ lastEvent' = [kind |-> "timer", delay |-> timers[i]]
  /\ UNCHANGED <<sockets, registryVars, coinbaseWs, readyState, upstreamSubs,
                 wasOpened, closeLog, connectCalls>>

\* The setTimeout callback of the close handler.
TimerFired(i) ==
  /\ i \in 1..Len(timers)
  /\ timers' = [j \in 1..(Len(timers) - 1) |-> IF j < i THEN timers[j] ELSE timers[j + 1]]
  /\ reconnectAttempts' = reconnectAttempts + 1
  /\ LET res == initializeCoinbaseWebSocket(coinbaseWs, readyState)
     IN  /\ coinbaseWs' = res.coinbaseWs
         /\ readyState' = res.readyState
         /\ upstreamSubs' = IF readyState[coinbaseWs] = OPEN THEN upstreamSubs ELSE {}
  /\ sent' = EmptyBag
  /\ emitted' = EmptyBag
  /\ lastEvent' = [kind |-> "timer", delay |-> timers[i]]
  /\ UNCHANGED <<sockets, registryVars, wasOpened, closeLog, connectCalls>>

\* initializeCoinbaseWebSocket() called once more, by a caller other than
\* the constructor and the reconnect timer, whatever the upstream state is.
Connect ==
  /\ connectCalls < MaxConnectCalls
  /\ connectCalls' = connectCalls + 1
  /\ LET res == initializeCoinbaseWebSocket(coinbaseWs, readyState)
     IN  /\ coinbaseWs' = res.coinbaseWs
         /\ readyState' = res.readyState
         /\ upstreamSubs' = IF readyState[coinbaseWs] = OPEN THEN upstreamSubs ELSE {}
  /\ sent' = EmptyBag
  /\ emitted' = EmptyBag
  /\ lastEvent' = [kind |-> "connect", ws |-> coinbaseWs,
                   state |-> readyState[coinbaseWs]]
  /\ UNCHANGED <<sockets, registryVars, reconnectAttempts, timers, wasOpened,
                 closeLog>>

(* ---------------------------- specification --------------------------- *)

Next ==
  \/ \E c \in Clients : OnConnection(c)
  \/ \E c \in Clients, p \in Products : OnSubscribe(c, p)
  \/ \E c \in Clients, p \in Products : OnUnsubscribe(c, p)
  \/ \E c \in Clients : OnDisconnect(c)
  \/ \E w \in DOMAIN readyState : WsOpen(w)
  \/ \E w \in DOMAIN readyState, data \in RawData : WsMessage(w, data)
  \/ \E w \in DOMAIN readyState : WsError(w)
  \/ \E w \in DOMAIN readyState : WsClosing(w)
  \/ \E w \in DOMAIN readyState : WsClose(w)
  \/ \E i \in 1..Len(timers) : TimerFired(i)

Spec == Init /\ [][Next]_vars

\* The relay on an event loop that runs every pending setTimeout callback.
SpecFair == Spec /\ WF_vars(\E i \in 1..Len(timers) : TimerFired(i))

\* The upstream connection with a caller that may invoke
\* initializeCoinbaseWebSocket() at any moment.  The client handlers and the
\* message handler are left out: they write none of the variables of the
\* connection.
NextConnect ==
  \/ \E w \in DOMAIN readyState : WsOpen(w)
  \/ \E w \in DOMAIN readyState : WsError(w)
  \/ \E w \in DOMAIN readyState : WsClosing(w)
  \/ \E w \in DOMAIN readyState : WsClose(w)
  \/ \E i \in 1..Len(timers) : TimerFired(i)
  \/ Connect

SpecConnect == Init /\ [][NextConnect]_vars

TypeOK ==
  /\ sockets \subseteq Clients
  /\ DOMAIN subscriptions \subseteq Products
  /\ DOMAIN socketSubscriptions \subseteq Clients
  /\ coinbaseWs \in DOMAIN readyState
  /\ \A w \in DOMAIN readyState : readyState[w] \in {CONNECTING, OPEN, CLOSING, CLOSED}
  /\ reconnectAttempts \in Nat
  /\ connectCalls \in 0..MaxConnectCalls
  /\ upstreamSubs \subseteq Products

(* ------------------------------- claims ------------------------------- *)

Subscribers(productId) == GetOrEmpty(subscriptions, productId)
ProductsOf(socketId) == GetOrEmpty(socketSubscriptions, socketId)
UpstreamConnected == readyState[coinbaseWs] = OPEN

\* C1: with the upstream connected, the subscribe request of the first
\* subscriber of a product sends exactly one upstream subscribe; the request
\* of a further subscriber, for a product that has subscribers and is
\* subscribed on the connection since, sends none.
C1_NoDuplicateUpstreamSubscribe ==
  [][ (lastEvent'.kind = "subscribe" /\ UpstreamConnected) =>
        /\ lastEvent'.before = {} =>
             sent' = SetToBag({SubscribeMsg(lastEvent'.productId)})
        /\ (/\ lastEvent'.before # {}
            /\ lastEvent'.socket \notin lastEvent'.before
            /\ lastEvent'.productId \in upstreamSubs) => sent' = EmptyBag ]_vars

\* C2: with the upstream connected, the unsubscribe of a subscriber of a
\* product that others still hold sends nothing upstream; the unsubscribe of
\* its last subscriber sends exactly one upstream unsubscribe for it.
C2_LastUnsubscribe ==
  (/\ lastEvent.kind = "unsubscribe"
   /\ UpstreamConnected
   /\ lastEvent.socket \in lastEvent.before) =>
     sent = IF lastEvent.before = {lastEvent.socket}
              THEN SetToBag({UnsubscribeMsg(lastEvent.productId)})
              ELSE EmptyBag

\* C2 witness: both clients held the product, one left earlier, and the
\* unsubscribe of the last one has just sent the upstream unsubscribe.
C2_Witness ==
  /\ lastEvent.kind = "unsubscribe"
  /\ UpstreamConnected
  /\ lastEvent.before = {lastEvent.socket}
  /\ sockets = Clients
  /\ sent = SetToBag({UnsubscribeMsg(lastEvent.productId)})
  /\ ~Has(subscriptions, lastEvent.productId)

\* C3: an unsubscribe request for a pair that is not in the registry leaves
\* the registry as it is and sends nothing upstream; an unsubscribe request
\* sends an upstream unsubscribe only when it removed the last subscriber.
C3_AbsentUnsubscribeIsNoOp ==
  [][ lastEvent'.kind = "unsubscribe" =>
        /\ lastEvent'.socket \notin lastEvent'.before =>
             /\ subscriptions' = subscriptions
             /\ socketSubscriptions' = socketSubscriptions
             /\ sent' = EmptyBag
        /\ sent' # EmptyBag => lastEvent'.before = {lastEvent'.socket} ]_vars

\* C4: a client is in the subscriber set of a product exactly when the
\* product is in the product set of the client.
C4_RegistrySymmetry ==
  \A c \in Clients, p \in Products :
     c \in Subscribers(p) <=> p \in ProductsOf(c)

\* C4 witness: a client that held both products has disconnected while the
\* other client still holds one.
C4_Witness ==
  /\ lastEvent.kind = "disconnect"
  /\ lastEvent.products = Products
  /\ \E c \in sockets : ProductsOf(c) # {}

\* C5: no key of either map has an empty set.
C5_NoEmptyEntries ==
  /\ \A p \in DOMAIN subscriptions : subscriptions[p] # {}
  /\ \A c \in DOMAIN socketSubscriptions : socketSubscriptions[c] # {}

\* C5 witness: an unsubscribe has removed the last subscriber of a product
\* and the last product of a client; both keys are gone.
C5_Witness ==
  /\ lastEvent.kind = "unsubscribe"
  /\ lastEvent.before = {lastEvent.socket}
  /\ ~Has(subscriptions, lastEvent.productId)
  /\ ~Has(socketSubscriptions, lastEvent.socket)

\* The ticker for a product that the last handler was given, if it was one.
IsTickerFor(productId) ==
  /\ lastEvent.kind = "message"
  /\ lastEvent.data.json
  /\ lastEvent.data.value.type = "ticker"
  /\ Field(lastEvent.data.value, "product_id") = productId

\* C6: a ticker for a product is delivered exactly once to every connected
\* client in the subscriber set of the product, and to no other client.
C6_TickerRouting ==
  \A p \in Products :
     IsTickerFor(p) =>
        emitted = SetToBag({Emit(c, "ticker", lastEvent.data.value) :
                              c \in Subscribers(p) \cap sockets})

\* C6 witness: a ticker reached a subscriber of its product and did not
\* reach a connected client that holds only another product.
C6_Witness ==
  \E p \in Products, c, d \in sockets :
     /\ IsTickerFor(p)
     /\ c \in Subscribers(p)
     /\ d \notin Subscribers(p) /\ ProductsOf(d) # {}
     /\ CopiesIn(Emit(c, "ticker", lastEvent.data.value), emitted) = 1
     /\ BagToSet(emitted) = {Emit(c, "ticker", lastEvent.data.value)}

\* C7: when a client disconnects, it leaves every product it held; with the
\* upstream connected, exactly one upstream unsubscribe is sent for each of
\* those products that nobody else holds, and nothing else is sent.
C7_DisconnectCleanup ==
  lastEvent.kind = "disconnect" =>
     /\ \A p \in Products : lastEvent.socket \notin Subscribers(p)
     /\ ProductsOf(lastEvent.socket) = {}
     /\ UpstreamConnected =>
          sent = SetToBag({UnsubscribeMsg(p) :
                             p \in {q \in lastEvent.products : Subscribers(q) = {}}})

\* C7 witness: the client held both products, another client holds one of
\* them, and exactly the other one was unsubscribed upstream.
C7_Witness ==
  /\ lastEvent.kind = "disconnect"
  /\ UpstreamConnected
  /\ lastEvent.products = Products
  /\ \E p \in Products :
        /\ Subscribers(p) # {}
        /\ \E q \in Products \ {p} : sent = SetToBag({UnsubscribeMsg(q)})

\* The delays of the consecutive closes, and no reconnect after them.
BackoffSchedule == <<5000, 10000, 20000, 40000, 80000>>

\* C8: the closes since the construction or the last open schedule the
\* delays 5000, 10000, 20000, 40000, 80000 in this order, and the sixth
\* schedules nothing.
C8_BackoffSchedule ==
  /\ Len(closeLog) <= Len(BackoffSchedule) + 1
  /\ \A i \in 1..Len(closeLog) :
        IF i <= Len(BackoffSchedule)
          THEN closeLog[i].scheduled /\ closeLog[i].delay = BackoffSchedule[i]
          ELSE ~closeLog[i].scheduled

\* C8 witness: six closes in a row, the fifth with delay 80000, the sixth
\* without a timer.
C8_Witness ==
  /\ Len(closeLog) = 6
  /\ closeLog[5].scheduled /\ closeLog[5].delay = 80000
  /\ ~closeLog[6].scheduled
  /\ timers = <<>>

\* C9: the open handler leaves reconnectAttempts at 0, whatever it was, and
\* the close of a socket that had opened schedules a reconnect after 5000.
C9_OpenResetsBackoff ==
  /\ lastEvent.kind = "open" => reconnectAttempts = 0
  /\ (lastEvent.kind = "close" /\ lastEvent.opened) =>
        /\ Len(closeLog) = 1
        /\ closeLog[1].scheduled /\ closeLog[1].delay = 5000
        /\ timers = <<5000>>

\* C9 witness: the socket of the last of the reconnects has opened and
\* reconnectAttempts is 0 again.
C9_Witness ==
  /\ lastEvent.kind = "open"
  /\ lastEvent.attemptsBefore = maxReconnectAttempts
  /\ reconnectAttempts = 0
  /\ UpstreamConnected

\* A close handler has run with reconnectAttempts >= maxReconnectAttempts.
Exhausted ==
  \E i \in 1..Len(closeLog) : closeLog[i].attempts >= maxReconnectAttempts

\* C10: from a close with reconnectAttempts >= maxReconnectAttempts on, no
\* timer is pending, no socket is created, the upstream socket stays CLOSED,
\* and a subscribe request still enters the registry.
C10_ExhaustionIsTerminal ==
  [][ Exhausted =>
        /\ Exhausted'
        /\ timers = <<>> /\ timers' = <<>>
        /\ readyState[coinbaseWs] = CLOSED
        /\ coinbaseWs' = coinbaseWs /\ readyState' = readyState
        /\ lastEvent'.kind \in {"connection", "subscribe", "unsubscribe", "disconnect"}
        /\ lastEvent'.kind = "subscribe" =>
             /\ lastEvent'.socket \in GetOrEmpty(subscriptions', lastEvent'.productId)
             /\ sent' = EmptyBag ]_vars

\* C10 witness: after the retries ran out, a subscribe request was handled
\* and is in the registry, with the upstream socket CLOSED.
C10_Witness ==
  /\ Exhausted
  /\ lastEvent.kind = "subscribe"
  /\ lastEvent.before = {}
  /\ lastEvent.socket \in Subscribers(lastEvent.productId)
  /\ readyState[coinbaseWs] = CLOSED

\* C11: a call of initializeCoinbaseWebSocket() while the upstream socket is
\* CONNECTING or OPEN creates no socket and leaves this.coinbaseWs as it is;
\* a call while it is CLOSED leaves this.coinbaseWs a CONNECTING socket.
C11_ConnectNoOpWhenLive ==
  [][ lastEvent'.kind \in {"connect", "timer"} =>
        /\ readyState[coinbaseWs] \in {CONNECTING, OPEN} =>
             /\ coinbaseWs' = coinbaseWs
             /\ readyState' = readyState
        /\ readyState[coinbaseWs] = CLOSED =>
             readyState'[coinbaseWs'] = CONNECTING ]_vars

\* The WebSocket objects in use that are CONNECTING or OPEN.
LiveSockets == {w \in DOMAIN readyState : readyState[w] \in {CONNECTING, OPEN}}

\* C12: at most one WebSocket is CONNECTING or OPEN, at most one reconnect
\* timer is pending, and no timer is pending while a WebSocket is CONNECTING
\* or OPEN.
C12_OneLogicalConnection ==
  /\ Cardinality(LiveSockets) <= 1
  /\ Len(timers) <= 1
  /\ timers # <<>> => LiveSockets = {}

\* C12 witness: the timer of the second close in a row has fired; its socket
\* is the only one, CONNECTING, and no timer is left.
C12_Witness ==
  /\ lastEvent.kind = "timer"
  /\ lastEvent.delay = 10000
  /\ LiveSockets = {coinbaseWs}
  /\ readyState[coinbaseWs] = CONNECTING
  /\ timers = <<>>

\* C13: a subscribe or unsubscribe request adds the pair to, or removes it
\* from, both maps of the registry whatever the state of the upstream socket
\* is, and sends nothing upstream when the socket is not OPEN.
C13_SendsGatedOnConnected ==
  [][ lastEvent'.kind \in {"subscribe", "unsubscribe"} =>
        LET c == lastEvent'.socket
            p == lastEvent'.productId
            adds == lastEvent'.kind = "subscribe"
        IN  /\ ~UpstreamConnected => sent' = EmptyBag
            /\ \A q \in Products :
                  GetOrEmpty(subscriptions', q) =
                    IF q # p THEN Subscribers(q)
                    ELSE IF adds THEN Subscribers(q) \cup {c}
                    ELSE Subscribers(q) \ {c}
            /\ \A d \in Clients :
                  GetOrEmpty(socketSubscriptions', d) =
                    IF d # c THEN ProductsOf(d)
                    ELSE IF adds THEN ProductsOf(d) \cup {p}
                    ELSE ProductsOf(d) \ {p} ]_vars

\* C13 witness: with the upstream socket not OPEN, the last subscriber of a
\* product has unsubscribed: the product has left the registry and nothing
\* was sent upstream.
C13_Witness ==
  /\ lastEvent.kind = "unsubscribe"
  /\ ~UpstreamConnected
  /\ lastEvent.before = {lastEvent.socket}
  /\ ~Has(subscriptions, lastEvent.productId)
  /\ lastEvent.productId \notin ProductsOf(lastEvent.socket)
  /\ sent = EmptyBag

\* The upstream socket is OPEN and a product that has subscribers is not
\* subscribed on its connection.
Gap(productId) ==
  /\ UpstreamConnected
  /\ Subscribers(productId) # {}
  /\ productId \notin upstreamSubs

\* C14: the open handler sends nothing upstream, and a product that has
\* subscribers and is not subscribed on the OPEN connection becomes
\* subscribed on it only by a subscribe request for that product.
C14_ResubscribeGap ==
  [][ /\ lastEvent'.kind = "open" => sent' = EmptyBag
      /\ \A p \in Products :
            (Gap(p) /\ p \in upstreamSubs') =>
               /\ lastEvent'.kind = "subscribe"
               /\ lastEvent'.productId = p ]_vars

\* C14 witness: the upstream socket has opened, a client that subscribed
\* before the open holds a product, and after a ticker for another product
\* the product is still not subscribed on the connection.
C14_Witness ==
  \E p \in Products :
     /\ Gap(p)
     /\ lastEvent.kind = "message"
     /\ wasOpened = {coinbaseWs}
     /\ \E q \in Products \ {p} : IsTickerFor(q)

\* The products that have at least one subscriber in the registry.
Wanted == {p \in Products : Subscribers(p) # {}}

\* C15: every product subscribed on the connection of the upstream socket
\* has at least one subscriber in the registry.
C15_UpstreamOnlyWanted == upstreamSubs \subseteq Wanted

\* C15, amended: while the upstream socket is OPEN, every product
\* subscribed on its connection has at least one subscriber in the registry.
C15_UpstreamOnlyWantedWhileOpen == UpstreamConnected => upstreamSubs \subseteq Wanted

\* C15 witness: on the OPEN socket the last subscriber of one product has
\* unsubscribed and the other product, still held, is the only one
\* subscribed on the connection.
C15_Witness ==
  /\ lastEvent.kind = "unsubscribe"
  /\ UpstreamConnected
  /\ lastEvent.before = {lastEvent.socket}
  /\ upstreamSubs = Products \ {lastEvent.productId}
  /\ Wanted = upstreamSubs

\* One coinbase-status event with the payload arg for every connected client.
StatusToAll(arg) ==
  SetToBag({[to |-> c, ev |-> "coinbase-status", arg |-> arg] : c \in sockets})

\* C16: the open handler sends coinbase-status with connected true to every
\* connected client, the error handler sends it with connected false and the
\* error message, and the close handler sends it with connected false; each
\* client gets the event once and nothing else.
C16_StatusBroadcast ==
  /\ lastEvent.kind = "open" => emitted = StatusToAll([connected |-> TRUE])
  /\ lastEvent.kind = "error" =>
        emitted = StatusToAll([connected |-> FALSE, error |-> "message"])
  /\ lastEvent.kind = "close" => emitted = StatusToAll([connected |-> FALSE])

\* C16 witness: an error on the upstream socket was reported to both
\* clients, one of which holds no product.
C16_Witness ==
  /\ lastEvent.kind = "error"
  /\ sockets = Clients
  /\ \E c \in sockets : ProductsOf(c) = {}
  /\ \E c \in sockets : ProductsOf(c) # {}
  /\ \A c \in sockets :
        CopiesIn([to |-> c, ev |-> "coinbase-status",
                  arg |-> [connected |-> FALSE, error |-> "message"]], emitted) = 1

\* C17: the connection handler sends the new client one connection-status
\* event, with connected true and coinbaseConnected true exactly when the
\* upstream socket is OPEN, and sends nothing to anybody else; no other
\* handler sends a connection-status event.
C17_ConnectionSnapshot ==
  /\ lastEvent.kind = "connection" =>
        emitted = SetToBag({[to |-> lastEvent.socket, ev |-> "connection-status",
                             arg |-> [connected |-> TRUE,
                                      coinbaseConnected |-> UpstreamConnected]]})
  /\ lastEvent.kind # "connection" =>
        \A e \in BagToSet(emitted) : e.ev # "connection-status"

\* C17 witness: the second client connected while the upstream socket was
\* CLOSING and was told that the upstream is not connected.
C17_Witness ==
  /\ lastEvent.kind = "connection"
  /\ sockets = Clients
  /\ readyState[coinbaseWs] = CLOSING
  /\ CopiesIn([to |-> lastEvent.socket, ev |-> "connection-status",
               arg |-> [connected |-> TRUE, coinbaseConnected |-> FALSE]], emitted) = 1

IsAck ==
  /\ lastEvent.kind = "message"
  /\ lastEvent.data.json
  /\ lastEvent.data.value.type = "subscriptions"
  /\ "channels" \in DOMAIN lastEvent.data.value

\* The places <<i, j>> of the products listed in a channels array.
Occurrences(channels) ==
  UNION {{<<i, j>> : j \in 1..Len(channels[i].product_ids)} :
           i \in {k \in 1..Len(channels) : "product_ids" \in DOMAIN channels[k]}}

\* The listed occurrences of products that client c is subscribed to.
ListedFor(c, channels) ==
  {o \in Occurrences(channels) : c \in Subscribers(channels[o[1]].product_ids[o[2]])}

\* C19: an acknowledgement is delivered as subscription-confirmed to a
\* connected client once for every listed occurrence of a product the client
\* is subscribed to, to no client subscribed to none of the listed products,
\* and nothing else is delivered.
C19_AckRouting ==
  IsAck =>
     LET message == lastEvent.data.value
     IN  /\ \A c \in Clients :
               CopiesIn([to |-> c, ev |-> "subscription-confirmed", arg |-> message],
                        emitted)
                 = IF c \in sockets
                     THEN Cardinality(ListedFor(c, message.channels)) ELSE 0
         /\ \A e \in BagToSet(emitted) :
               e.ev = "subscription-confirmed" /\ e.arg = message

\* C19 witness: the acknowledgement lists one product twice; the client
\* holding it got two events, the connected client holding only the other
\* product got none.
C19_Witness ==
  \E p \in Products, c, d \in sockets :
     /\ IsAck
     /\ lastEvent.data.value.channels =
           <<[name |-> "ticker", product_ids |-> <<p>>],
             [name |-> "ticker", product_ids |-> <<p>>]>>
     /\ ProductsOf(c) = {p}
     /\ ProductsOf(d) = Products \ {p}
     /\ emitted = (Emit(c, "subscription-confirmed", lastEvent.data.value) :> 2)

\* C20: after the disconnect handler the client is in no subscriber set and
\* has no entry of its own; cleanupClient run once more for the client, and
\* the disconnect of a client that held nothing, leave the registry as it is
\* and send nothing upstream.
C20_CleanupIdempotent ==
  [][ lastEvent'.kind = "disconnect" =>
        LET c == lastEvent'.socket
            after == Registry(subscriptions', socketSubscriptions')
            again == cleanupClient(after, readyState'[coinbaseWs'], c)
        IN  /\ \A p \in Products : c \notin GetOrEmpty(subscriptions', p)
            /\ ~Has(socketSubscriptions', c)
            /\ again.reg = after
            /\ again.out = EmptyBag
            /\ lastEvent'.products = {} =>
                  /\ subscriptions' = subscriptions
                  /\ socketSubscriptions' = socketSubscriptions
                  /\ sent' = EmptyBag ]_vars

\* C20 witness: with the upstream socket OPEN and a product held by the
\* other client, a client that held nothing has disconnected: nothing was
\* sent and the product is still subscribed on the connection.
C20_Witness ==
  /\ lastEvent.kind = "disconnect"
  /\ lastEvent.products = {}
  /\ UpstreamConnected
  /\ \E d \in sockets : ProductsOf(d) # {}
  /\ Wanted # Products
  /\ upstreamSubs = Wanted
  /\ sent = EmptyBag

\* C21: the close handler leaves reconnectAttempts as it found it, and a
\* close that found it at n < maxReconnectAttempts is followed by a run of
\* the timer callback after which reconnectAttempts is n + 1 and the
\* upstream socket is a CONNECTING one.
C21_ReconnectLiveness ==
  /\ [](lastEvent.kind = "close" => reconnectAttempts = lastEvent.attemptsBefore)
  /\ \A n \in 0..(maxReconnectAttempts - 1) :
        (lastEvent.kind = "close" /\ lastEvent.attemptsBefore = n)
          ~> (/\ lastEvent.kind = "timer"
              /\ lastEvent.delay = reconnectDelay * (2 ^ n)
              /\ reconnectAttempts = n + 1
              /\ readyState[coinbaseWs] = CONNECTING)

\* C21 witness: the timer of the fifth close in a row has fired:
\* reconnectAttempts is 5 and the new socket is CONNECTING.
C21_Witness ==
  /\ lastEvent.kind = "timer"
  /\ lastEvent.delay = 80000
  /\ reconnectAttempts = maxReconnectAttempts
  /\ readyState[coinbaseWs] = CONNECTING
  /\ timers = <<>>

\* The handlers of the events of a client.
ClientEvents == {"connection", "subscribe", "unsubscribe", "disconnect"}

\* C22: the connection, subscribe, unsubscribe and disconnect handlers
\* leave this.coinbaseWs, the readyState of every socket, reconnectAttempts
\* and the pending timers as they are.
C22_ClientsDoNotDriveUpstream ==
  [][ lastEvent'.kind \in ClientEvents =>
        /\ coinbaseWs' = coinbaseWs
        /\ readyState' = readyState
        /\ reconnectAttempts' = reconnectAttempts
        /\ timers' = timers ]_vars

\* C22 witness: a first subscribe request was handled while the upstream
\* socket was CLOSED and the timer of the third close was pending; the
\* socket is still CLOSED and the timer still pending.
C22_Witness ==
  /\ lastEvent.kind = "subscribe"
  /\ lastEvent.before = {}
  /\ lastEvent.socket \in Subscribers(lastEvent.productId)
  /\ readyState[coinbaseWs] = CLOSED
  /\ reconnectAttempts = 2
  /\ timers = <<20000>>

\* C23: the error handler leaves this.coinbaseWs, the readyState of every
\* socket, reconnectAttempts, both maps of the registry and the pending
\* timers as they are, and only the close handler adds a timer.
C23_ErrorOnlyBroadcasts ==
  [][ /\ lastEvent'.kind = "error" =>
            /\ coinbaseWs' = coinbaseWs
            /\ readyState' = readyState
            /\ reconnectAttempts' = reconnectAttempts
            /\ subscriptions' = subscriptions
            /\ socketSubscriptions' = socketSubscriptions
            /\ timers' = timers
      /\ Len(timers') > Len(timers) => lastEvent'.kind = "close" ]_vars

\* C23 witness: an error was reported on the OPEN socket while a client held
\* a product subscribed on it; the socket is still OPEN, the subscription in
\* place and no timer pending.
C23_Witness ==
  /\ lastEvent.kind = "error"
  /\ UpstreamConnected
  /\ upstreamSubs # {}
  /\ upstreamSubs = Wanted
  /\ timers = <<>>
  /\ \A c \in sockets :
        CopiesIn([to |-> c, ev |-> "coinbase-status",
                  arg |-> [connected |-> FALSE, error |-> "message"]], emitted) = 1

\* Data that is not JSON, a message of another type, a ticker without a
\* product_id, or an acknowledgement without channels.
Malformed(data) ==
  \/ ~data.json
  \/ /\ data.json
     /\ \/ data.value.type \notin {"ticker", "subscriptions"}
        \/ /\ data.value.type = "ticker"
           /\ ("product_id" \notin DOMAIN data.value \/ data.value.product_id = "")
        \/ /\ data.value.type = "subscriptions"
           /\ "channels" \notin DOMAIN data.value

\* C24: the message handler, given malformed data, writes no event to any
\* client and leaves the registry, this.coinbaseWs, the readyState of every
\* socket and reconnectAttempts as they are; a ticker that the same socket
\* receives next is delivered to the connected subscribers of its product.
C24_MalformedDropped ==
  [][ /\ (lastEvent'.kind = "message" /\ Malformed(lastEvent'.data)) =>
            /\ emitted' = EmptyBag
            /\ subscriptions' = subscriptions
            /\ socketSubscriptions' = socketSubscriptions
            /\ coinbaseWs' = coinbaseWs
            /\ readyState' = readyState
            /\ readyState'[lastEvent'.ws] = OPEN
            /\ reconnectAttempts' = reconnectAttempts
      /\ (/\ lastEvent.kind = "message" /\ Malformed(lastEvent.data)
          /\ lastEvent'.kind = "message" /\ lastEvent'.ws = lastEvent.ws
          /\ ~Malformed(lastEvent'.data)
          /\ lastEvent'.data.value.type = "ticker") =>
            emitted' = SetToBag({[to |-> c, ev |-> "ticker",
                                  arg |-> lastEvent'.data.value] :
                                   c \in Subscribers(lastEvent'.data.value.product_id)
                                          \cap sockets}) ]_vars

\* C24 witness: data that is not JSON arrived on the OPEN socket while both
\* clients held a product; nothing was delivered and the socket is OPEN.
C24_Witness ==
  /\ lastEvent.kind = "message"
  /\ ~lastEvent.data.json
  /\ Malformed(lastEvent.data)
  /\ UpstreamConnected
  /\ \A c \in Clients : c \in sockets /\ ProductsOf(c) # {}
  /\ emitted = EmptyBag

\* C25: reconnectAttempts is between 0 and maxReconnectAttempts; a step
\* that changes it is a run of the timer callback, which adds one, or of the
\* open handler, which sets it to 0.
C25_AttemptsBounded ==
  [][ /\ reconnectAttempts \in 0..maxReconnectAttempts
      /\ reconnectAttempts' \in 0..maxReconnectAttempts
      /\ reconnectAttempts' # reconnectAttempts =>
            \/ /\ lastEvent'.kind = "timer"
               /\ reconnectAttempts' = reconnectAttempts + 1
            \/ /\ lastEvent'.kind = "open"
               /\ reconnectAttempts' = 0 ]_vars

\* C25 witness: the socket of the fifth reconnect has closed:
\* reconnectAttempts was and is maxReconnectAttempts and no timer was set.
C25_Witness ==
  /\ lastEvent.kind = "close"
  /\ lastEvent.attemptsBefore = maxReconnectAttempts
  /\ reconnectAttempts = maxReconnectAttempts
  /\ timers = <<>>
  /\ readyState[coinbaseWs] = CLOSED

\* The socket ids that occur in the registry, in either map.
RegisteredIds ==
  (DOMAIN socketSubscriptions) \cup UNION {subscriptions[p] : p \in DOMAIN subscriptions}

\* C26: every socket id in the registry is the id of a connected client, and
\* every event of the last handler went to a connected client.
C26_NoStaleSubscribers ==
  /\ RegisteredIds \subseteq sockets
  /\ \A e \in BagToSet(emitted) : e.to \in sockets

\* C26 witness: a client that held a product has disconnected, the other
\* client holds the same product and is the only id left in the registry.
C26_Witness ==
  \E c \in Clients :
     /\ lastEvent.kind = "disconnect"
     /\ lastEvent.products # {}
     /\ sockets = {c}
     /\ RegisteredIds = {c}
     /\ ProductsOf(c) \cap lastEvent.products # {}

=============================================================================
